---------------------------- MODULE Spec2Model ----------------------------
(***************************************************************************)
(* Model of src/tk2/api.py: the remote-callable endpoints of the tk2 app.  *)
(*                                                                         *)
(* Every endpoint is a synchronous request handler over an external record *)
(* store.  The state is the content of the store tables the handlers touch,*)
(* the session identity, the inbound request, and the outcome of the last  *)
(* handled call.  A behaviour starts with one inbound request against one  *)
(* store content and handles that request up to MaxCalls times (a client   *)
(* may re-send a request; nothing in the code prevents it).                *)
(*                                                                         *)
(* Amounts are Python floats in the code.  They are modelled as binary     *)
(* floating-point numbers with a MantBits-bit significand (the code's      *)
(* doubles have 53) over the integers: every arithmetic step rounds its    *)
(* exact result to the nearest representable value, ties to even.          *)
(***************************************************************************)
EXTENDS Integers, Sequences, FiniteSets, TLC

VARIABLES
    request,        \* the inbound call: endpoint name and arguments
    css,            \* tabCustomer Service Sheet: name -> sheet document
    invoices,       \* tabSales Invoice: persisted documents, in insert order
    customers,      \* tabCustomer: persisted documents, in the order get_all returns them
    rates,          \* tabCurrency Exchange: set of rate records
    ad_spends,      \* tabAD Spend: name -> document
    journals,       \* tabJournal Entry: persisted documents, in insert order
    role_profile,   \* tabUser.role_profile_name: user -> role profile
    session_user,   \* frappe.session.user
    pc,             \* position inside the role-administration handlers
    current_user,   \* local variable current_user of the role-administration handlers
    start_user,     \* history: frappe.session.user when the running call started
    pending,        \* outcome of the privileged store operation, held until the finally block ran
    calls,          \* number of calls handled so far
    lookups,        \* history: number of Currency Exchange queries issued
    result          \* outcome of the last handled call

vars == <<request, css, invoices, customers, rates, ad_spends, journals,
          role_profile, session_user, pc, current_user, start_user, pending,
          calls, lookups, result>>

-----------------------------------------------------------------------------
(* Bounds of the model *)

\* significand width of the modelled floats
MantBits == 2
\* largest amount (price, outstanding amount, deduction) drawn as an input
MaxAmt == 6
\* largest rate of a sheet line
MaxRate == 2
\* largest number of line items on a sheet
MaxLines == 2
\* largest number of selected invoices in an agent payment
MaxSelected == 2
\* largest number of customers in the store
MaxCustomers == 2
\* largest number of Currency Exchange records in the store
MaxRates == 2
\* latest date of the calendar
MaxDate == 2
\* how many times the inbound request is handled
MaxCalls == 2

-----------------------------------------------------------------------------
(* Python values *)

\* Python's None, for the string-valued fields and arguments
None == "None"

\* truth value of a string-or-None value: None and "" are falsy
Truthy(x) == x # None /\ x # ""

\* str.lower() on the item codes of the model
Lower(s) ==
    CASE s = "ComboEx" -> "comboex"
      [] s = "COMBOEX" -> "comboex"
      [] s = "TEA-01"  -> "tea-01"
      [] OTHER         -> s

-----------------------------------------------------------------------------
(* Binary floating point, round to nearest, ties to even *)

RECURSIVE Pow2(_)
Pow2(n) == IF n = 0 THEN 1 ELSE 2 * Pow2(n - 1)

\* the spacing of the representable values around the magnitude a
RECURSIVE Quantum(_, _)
Quantum(a, q) == IF a < Pow2(MantBits) * q THEN q ELSE Quantum(a, 2 * q)

RoundMag(a) ==
    LET q   == Quantum(a, 1)
        lo  == (a \div q) * q
        rem == a - lo
    IN  IF 2 * rem < q THEN lo
        ELSE IF 2 * rem > q THEN lo + q
        ELSE IF (lo \div q) % 2 = 0 THEN lo ELSE lo + q

\* the float nearest to the exact value x
Float(x) == IF x < 0 THEN 0 - RoundMag(0 - x) ELSE RoundMag(x)

IsFloat(x) == Float(x) = x

fadd(a, b) == Float(a + b)
fsub(a, b) == Float(a - b)
fmul(a, b) == Float(a * b)

\* the amounts drawn as inputs: the representable values up to MaxAmt
Amounts == {a \in 0..MaxAmt : IsFloat(a)}

-----------------------------------------------------------------------------
(* Outcomes *)

NoResult == [status |-> "none"]
Ok(v)    == [status |-> "ok", value |-> v]
Error(exc, msg) == [status |-> "error", exc |-> exc, message |-> msg]

\* name the store gives the n-th inserted document of a table
DocName(prefix, n) == prefix \o ToString(n)

-----------------------------------------------------------------------------
(* create_sales_invoice *)

ItemCodes == {"comboex", "ComboEx", "TEA-01"}
Qtys      == {1, 2}
SheetLines == [item_code : ItemCodes, qty : Qtys, rate : 1..MaxRate]

RECURSIVE SeqsUpTo(_, _)
SeqsUpTo(S, n) ==
    IF n = 0 THEN {<<>>}
    ELSE LET shorter == SeqsUpTo(S, n - 1)
         IN  shorter \cup {Append(s, x) : s \in {t \in shorter : Len(t) = n - 1}, x \in S}

\* the subsets of S with at most n elements
RECURSIVE SubsetsUpTo(_, _)
SubsetsUpTo(S, n) ==
    IF n = 0 THEN {{}}
    ELSE LET smaller == SubsetsUpTo(S, n - 1)
         IN  smaller \cup {s \cup {x} : s \in smaller, x \in S}

Sheets == [erp_customer : {None, "", "CUST-1"},
           custom_agent : {"agent-1"},
           price        : Amounts,
           item         : SeqsUpTo(SheetLines, MaxLines)]

\* sum_of_item_lines after the loop over the first n lines
RECURSIVE LineSum(_, _)
LineSum(items, n) ==
    IF n = 0 THEN 0
    ELSE fadd(LineSum(items, n - 1), fmul(items[n].qty, items[n].rate))

sum_of_item_lines(doc) == LineSum(doc.item, Len(doc.item))

first_item_code(doc) ==
    IF Len(doc.item) > 0 THEN Lower(doc.item[1].item_code) ELSE ""

difference(doc) == fsub(sum_of_item_lines(doc), doc.price)

MsgNoCustomer == "No linked Customer found in erp_customer field"
MsgUnderPrice == "Order Price is not equal to the invoice price. Please add comboex  on the first row if this is a combo."
MsgOverPrice  == "Order Price is not equal to the invoice price, and the first row is not Comboex. Please add a comboex  on the first row or fix your items."

\* faulty variant of the definition below: the check of the line sum above the price is missing
PriceCheck_NoOverCheck(doc) ==
    IF ~Truthy(doc.erp_customer) THEN Error("ValidationError", MsgNoCustomer)
    ELSE IF difference(doc) < 0 /\ first_item_code(doc) # "comboex"
         THEN Error("ValidationError", MsgUnderPrice)
    ELSE NoResult

\* faulty variant of the definition below: the customer is checked after the price
PriceCheck_CustomerLast(doc) ==
    IF difference(doc) < 0 /\ first_item_code(doc) # "comboex"
         THEN Error("ValidationError", MsgUnderPrice)
    ELSE IF difference(doc) > 0 /\ first_item_code(doc) # "comboex"
         THEN Error("ValidationError", MsgOverPrice)
    ELSE IF ~Truthy(doc.erp_customer) THEN Error("ValidationError", MsgNoCustomer)
    ELSE NoResult

\* the error the checks of lines 79-119 raise, or NoResult when they pass
PriceCheck(doc) ==
    IF ~Truthy(doc.erp_customer) THEN Error("ValidationError", MsgNoCustomer)
    ELSE IF difference(doc) < 0 /\ first_item_code(doc) # "comboex"
         THEN Error("ValidationError", MsgUnderPrice)
    ELSE IF difference(doc) > 0 /\ first_item_code(doc) # "comboex"
         THEN Error("ValidationError", MsgOverPrice)
    ELSE NoResult

\* faulty variant of the definition below: a line sum under the price is discounted too
DiscountApplies_AnyDifference(doc) == difference(doc) # 0 /\ first_item_code(doc) = "comboex"

\* faulty variant of the definition below: the discount block runs for every comboex sheet
DiscountApplies_AnyCombo(doc) == first_item_code(doc) = "comboex"

\* whether the discount block of lines 153-156 runs
DiscountApplies(doc) == difference(doc) > 0 /\ first_item_code(doc) = "comboex"

\* the Sales Invoice the handler stages, as inserted and submitted under name
SalesInvoice(doc, name) ==
    [name                 |-> name,
     company              |-> "Timmie Kettle",
     customer             |-> doc.erp_customer,
     posting_date         |-> "today",
     set_posting_time     |-> 1,
     custom_agent         |-> doc.custom_agent,
     write_off_amount     |-> 0,
     base_write_off_amount |-> 0,
     items                |-> [i \in 1..Len(doc.item) |->
                                 [item_code |-> doc.item[i].item_code,
                                  qty       |-> doc.item[i].qty,
                                  rate      |-> doc.item[i].rate]],
     apply_discount_on    |-> IF DiscountApplies(doc) THEN "Grand Total" ELSE None,
     discount_amount      |-> IF DiscountApplies(doc) THEN difference(doc) ELSE 0,
     additional_discount_percentage |-> 0,
     docstatus            |-> 1]

create_sales_invoice ==
    /\ request.op = "create_sales_invoice"
    /\ calls < MaxCalls
    /\ LET doc   == css[request.customer_service_sheet]
           check == PriceCheck(doc)
           name  == DocName("SINV-", Len(invoices) + 1)
       IN  IF check.status = "error"
           THEN /\ result' = check
                /\ UNCHANGED invoices
           ELSE /\ invoices' = Append(invoices, SalesInvoice(doc, name))
                /\ result' = Ok(name)
    /\ calls' = calls + 1
    /\ UNCHANGED <<request, css, customers, rates, ad_spends, journals,
                   role_profile, session_user, pc, current_user, start_user,
                   pending, lookups>>

-----------------------------------------------------------------------------
(* Properties of create_sales_invoice *)

\* the sheet the inbound create_sales_invoice request names
TheSheet == css[request.customer_service_sheet]

InvoiceCallDone == request.op = "create_sales_invoice" /\ calls > 0

\* sum of qty*rate over the lines, accumulated in floats in line order
RECURSIVE QtyRateSum(_)
QtyRateSum(items) ==
    IF items = <<>> THEN 0
    ELSE LET n == Len(items)
         IN  Float(QtyRateSum(SubSeq(items, 1, n - 1)) + Float(items[n].qty * items[n].rate))

\* sum of qty*rate over the lines, in exact arithmetic
RECURSIVE ExactQtyRateSum(_)
ExactQtyRateSum(items) ==
    IF items = <<>> THEN 0
    ELSE LET n == Len(items)
         IN  ExactQtyRateSum(SubSeq(items, 1, n - 1)) + items[n].qty * items[n].rate

FirstCodeIsComboex(doc) ==
    Len(doc.item) > 0 /\ Lower(doc.item[1].item_code) = "comboex"

LastInvoice == invoices[Len(invoices)]

\* every call so far persisted one invoice, and the last call returned the last one's name
OneInvoicePerCall ==
    /\ result.status = "ok"
    /\ Len(invoices) = calls
    /\ result.value = LastInvoice.name
    /\ LastInvoice.docstatus = 1

\* C1: a comboex sheet with a line sum above the price gets one invoice with a
\* Grand Total discount of sum - price and percentage 0, so that the line sum
\* minus the discount equals the price.  The sums are read in exact arithmetic
\* or as the floats Python computes, whichever makes the statement true.
C1_ComboDiscountReconciles ==
    (/\ InvoiceCallDone
     /\ Truthy(TheSheet.erp_customer)
     /\ FirstCodeIsComboex(TheSheet)
     /\ QtyRateSum(TheSheet.item) > TheSheet.price
     /\ ExactQtyRateSum(TheSheet.item) > TheSheet.price)
    => /\ OneInvoicePerCall
       /\ LastInvoice.apply_discount_on = "Grand Total"
       /\ LastInvoice.additional_discount_percentage = 0
       /\ \/ /\ LastInvoice.discount_amount = ExactQtyRateSum(TheSheet.item) - TheSheet.price
             /\ ExactQtyRateSum(LastInvoice.items) - LastInvoice.discount_amount = TheSheet.price
          \/ /\ LastInvoice.discount_amount = Float(QtyRateSum(TheSheet.item) - TheSheet.price)
             /\ Float(QtyRateSum(LastInvoice.items) - LastInvoice.discount_amount) = TheSheet.price

PriceMismatchOutcome(doc) ==
    /\ invoices = <<>>
    /\ result.status = "error"
    /\ QtyRateSum(doc.item) < doc.price => result.message = MsgUnderPrice
    /\ QtyRateSum(doc.item) > doc.price => result.message = MsgOverPrice

\* C2 as stated: whenever the line sum differs from the price and the first
\* code is not comboex, the call fails with the price-mismatch error of its
\* direction and persists no invoice.
C2_MismatchAlwaysPriceError ==
    (/\ InvoiceCallDone
     /\ QtyRateSum(TheSheet.item) # TheSheet.price
     /\ ~FirstCodeIsComboex(TheSheet))
    => PriceMismatchOutcome(TheSheet)

\* C2 amended: on a sheet with a non-empty erp_customer, a line sum that differs
\* from the price with a first code other than comboex fails with the
\* under-price message (sum < price) or the not-Comboex message (sum > price);
\* no invoice is persisted.
C2_MismatchWithCustomerPriceError ==
    (/\ InvoiceCallDone
     /\ Truthy(TheSheet.erp_customer)
     /\ QtyRateSum(TheSheet.item) # TheSheet.price
     /\ ~FirstCodeIsComboex(TheSheet))
    => PriceMismatchOutcome(TheSheet)

C2_Witness ==
    /\ InvoiceCallDone
    /\ Truthy(TheSheet.erp_customer)
    /\ Len(TheSheet.item) = 2
    /\ QtyRateSum(TheSheet.item) > TheSheet.price
    /\ ~FirstCodeIsComboex(TheSheet)
    /\ result.status = "error"
    /\ result.message = MsgOverPrice

\* C3: a sheet with a customer whose line sum equals the price succeeds whatever
\* the first code is, with no discount field set, and every persisted invoice
\* has the sheet's lines in order with the same item code, qty and rate.
C3_EqualSumPlainInvoice ==
    (/\ InvoiceCallDone
     /\ Truthy(TheSheet.erp_customer)
     /\ QtyRateSum(TheSheet.item) = TheSheet.price)
    => /\ OneInvoicePerCall
       /\ \A k \in 1..Len(invoices) :
            /\ invoices[k].apply_discount_on = None
            /\ invoices[k].discount_amount = 0
            /\ invoices[k].additional_discount_percentage = 0
            /\ Len(invoices[k].items) = Len(TheSheet.item)
            /\ \A i \in 1..Len(TheSheet.item) :
                 /\ invoices[k].items[i].item_code = TheSheet.item[i].item_code
                 /\ invoices[k].items[i].qty = TheSheet.item[i].qty
                 /\ invoices[k].items[i].rate = TheSheet.item[i].rate

C3_Witness ==
    /\ InvoiceCallDone
    /\ Truthy(TheSheet.erp_customer)
    /\ Len(TheSheet.item) = 2
    /\ TheSheet.item[1].item_code = "TEA-01"
    /\ TheSheet.item[1].rate # TheSheet.item[2].rate
    /\ QtyRateSum(TheSheet.item) = TheSheet.price
    /\ result.status = "ok"
    /\ Len(invoices) = 1

\* C12: a sheet with a customer, a first code of comboex in any letter case and
\* a line sum below the price gets one invoice per call with no discount field
\* set; the invoice's line sum, with nothing taken off, stays below the price.
\* The line sum is the float sum the handler computes.
C12_ComboUnderPriceNoDiscount ==
    (/\ InvoiceCallDone
     /\ Truthy(TheSheet.erp_customer)
     /\ FirstCodeIsComboex(TheSheet)
     /\ QtyRateSum(TheSheet.item) < TheSheet.price)
    => /\ OneInvoicePerCall
       /\ \A k \in 1..Len(invoices) :
            /\ invoices[k].apply_discount_on = None
            /\ invoices[k].discount_amount = 0
            /\ invoices[k].additional_discount_percentage = 0
            /\ QtyRateSum(invoices[k].items) = QtyRateSum(TheSheet.item)
            /\ Float(QtyRateSum(invoices[k].items) - invoices[k].discount_amount)
                 < TheSheet.price

C12_Witness ==
    /\ InvoiceCallDone
    /\ Truthy(TheSheet.erp_customer)
    /\ Len(TheSheet.item) = 2
    /\ TheSheet.item[1].item_code = "ComboEx"
    /\ QtyRateSum(TheSheet.item) < TheSheet.price
    /\ ExactQtyRateSum(TheSheet.item) < TheSheet.price
    /\ result.status = "ok"
    /\ Len(invoices) = MaxCalls
    /\ LastInvoice.discount_amount = 0

\* C10: a sheet without erp_customer fails with the validation error whatever
\* its lines and price are, and no Sales Invoice is inserted or submitted.
C10_NoCustomerFailsBeforeWrite ==
    (InvoiceCallDone /\ ~Truthy(TheSheet.erp_customer))
    => /\ result = Error("ValidationError", MsgNoCustomer)
       /\ invoices = <<>>

C10_Witness ==
    /\ InvoiceCallDone
    /\ TheSheet.erp_customer = ""
    /\ Len(TheSheet.item) = 2
    /\ FirstCodeIsComboex(TheSheet)
    /\ QtyRateSum(TheSheet.item) > TheSheet.price
    /\ result.status = "error"

-----------------------------------------------------------------------------
(* search_customer, create_customer *)

Emails  == {"ada@x.ng", "obi@x.ng"}
Mobiles == {"0801", "0802"}

\* the Customer documents of the store, apart from their names
StoredCustomers == [email_id : Emails \cup {None}, mobile_no : Mobiles \cup {None}]

\* a store content: the n-th document is named CUST-n
CustomerStore(docs) ==
    [i \in 1..Len(docs) |->
        [name             |-> DocName("CUST-", i),
         customer_name    |-> DocName("Customer ", i),
         customer_group   |-> "Individual",
         territory        |-> "Nigeria",
         country          |-> None,
         default_currency |-> None,
         email_id         |-> docs[i].email_id,
         mobile_no        |-> docs[i].mobile_no,
         accounts         |-> <<>>]]

\* frappe.get_all("Customer", filters={field: value}): the matching documents, in store order
FoundByEmail(email) ==
    LET Match(c) == c.email_id = email IN SelectSeq(customers, Match)

FoundByMobile(mobile) ==
    LET Match(c) == c.mobile_no = mobile IN SelectSeq(customers, Match)

\* faulty variant of the definition below: the mobile lookup comes first
SearchResult_MobileFirst(email, mobile) ==
    IF Truthy(mobile) /\ FoundByMobile(mobile) # <<>>
        THEN FoundByMobile(mobile)[1].name
    ELSE IF Truthy(email) /\ FoundByEmail(email) # <<>>
        THEN FoundByEmail(email)[1].name
    ELSE None

SearchResult(email, mobile) ==
    IF Truthy(email) /\ FoundByEmail(email) # <<>>
        THEN FoundByEmail(email)[1].name
    ELSE IF Truthy(mobile) /\ FoundByMobile(mobile) # <<>>
        THEN FoundByMobile(mobile)[1].name
    ELSE None

search_customer ==
    /\ request.op = "search_customer"
    /\ calls < MaxCalls
    /\ result' = Ok(SearchResult(request.email, request.mobile))
    /\ calls' = calls + 1
    /\ UNCHANGED <<request, css, invoices, customers, rates, ad_spends, journals,
                   role_profile, session_user, pc, current_user, start_user,
                   pending, lookups>>

\* the document staged by lines 45-57, before the accounts row
NewCustomer(req) ==
    [name             |-> None,
     customer_name    |-> req.customer_name,
     customer_group   |-> "Individual",
     territory        |-> IF req.country = "Ghana" THEN "Ghana" ELSE "Nigeria",
     country          |-> req.country,
     default_currency |-> req.billing_currency,
     email_id         |-> req.email,
     mobile_no        |-> req.mobile,
     accounts         |-> <<>>]

\* line 59-63: the accounts row is built from the name company, which no scope binds
ReadsUnboundCompany(req) == req.country = "Ghana" /\ Truthy(req.default_account)

create_customer ==
    /\ request.op = "create_customer"
    /\ calls < MaxCalls
    /\ IF ReadsUnboundCompany(request)
       THEN /\ result' = Error("NameError", "name 'company' is not defined")
            /\ UNCHANGED customers
       ELSE LET name == DocName("CUST-", Len(customers) + 1)
            IN  /\ customers' = Append(customers, [NewCustomer(request) EXCEPT !.name = name])
                /\ result' = Ok(name)
    /\ calls' = calls + 1
    /\ UNCHANGED <<request, css, invoices, rates, ad_spends, journals,
                   role_profile, session_user, pc, current_user, start_user,
                   pending, lookups>>

-----------------------------------------------------------------------------
(* get_customer_service_users, update_user_role *)

Users        == <<"agent@tk", "cs2@tk">>
RoleProfiles == {"Customer Service", "Test"}

\* the values of the argument active, written as Python writes them
ActiveValues == {"True", "'1'", "1", "False", "'0'", "0"}

new_role(active) ==
    IF active \in {"True", "'1'", "1"} THEN "Customer Service" ELSE "Test"

\* frappe.db.get_all("User", filters={"role_profile_name": "Customer Service"}, ...)
CustomerServiceUsers ==
    LET Match(u) == role_profile[u] = "Customer Service"
        found    == SelectSeq(Users, Match)
    IN  [i \in 1..Len(found) |->
            [email |-> found[i], role_profile_name |-> role_profile[found[i]]]]

\* lines 492-494 and 509-510: remember the session user, switch to Administrator
SetAdministrator(op) ==
    /\ request.op = op
    /\ pc = "idle"
    /\ calls < MaxCalls
    /\ current_user' = session_user
    /\ start_user' = session_user
    /\ session_user' = "Administrator"
    /\ pc' = "try"
    /\ UNCHANGED <<request, css, invoices, customers, rates, ad_spends, journals,
                   role_profile, pending, calls, result, lookups>>

\* the store operation fails: the exception is held while the finally block runs
StoreRaises(op) ==
    /\ request.op = op
    /\ pc = "try"
    /\ pending' = Error("DatabaseError", "the store operation failed")
    /\ pc' = "finally"
    /\ UNCHANGED <<request, css, invoices, customers, rates, ad_spends, journals,
                   role_profile, session_user, current_user, start_user, calls,
                   result, lookups>>

\* faulty variant of the definition below: the user is restored after the store operation, not in a finally block
RestoredUser_OnSuccessOnly(saved, outcome) ==
    IF outcome.status = "ok" THEN saved ELSE "Administrator"

\* the user the finally block sets, after the try block ended with outcome
RestoredUser(saved, outcome) == saved

\* lines 501-504 and 513-515: restore the user, then return or let the exception go on
Finally(op) ==
    /\ request.op = op
    /\ pc = "finally"
    /\ session_user' = RestoredUser(current_user, pending)
    /\ result' = pending
    /\ pending' = NoResult
    /\ calls' = calls + 1
    /\ pc' = "idle"
    /\ UNCHANGED <<request, css, invoices, customers, rates, ad_spends, journals,
                   role_profile, current_user, start_user, lookups>>

GetAllUsers ==
    /\ request.op = "get_customer_service_users"
    /\ pc = "try"
    /\ pending' = Ok(CustomerServiceUsers)
    /\ pc' = "finally"
    /\ UNCHANGED <<request, css, invoices, customers, rates, ad_spends, journals,
                   role_profile, session_user, current_user, start_user, calls,
                   result, lookups>>

get_customer_service_users ==
    \/ SetAdministrator("get_customer_service_users")
    \/ GetAllUsers
    \/ StoreRaises("get_customer_service_users")
    \/ Finally("get_customer_service_users")

SetRoleProfile ==
    /\ request.op = "update_user_role"
    /\ pc = "try"
    /\ role_profile' = [role_profile EXCEPT ![request.user] = new_role(request.active)]
    /\ pending' = Ok("True")
    /\ pc' = "finally"
    /\ UNCHANGED <<request, css, invoices, customers, rates, ad_spends, journals,
                   session_user, current_user, start_user, calls, result, lookups>>

update_user_role ==
    \/ SetAdministrator("update_user_role")
    \/ SetRoleProfile
    \/ StoreRaises("update_user_role")
    \/ Finally("update_user_role")

-----------------------------------------------------------------------------
(* get_exchange_rate *)

Currencies == {"NGN", "USD", "GHS"}

RateRecords == [from_currency : Currencies, to_currency : {"NGN", "GHS"},
                date : 1..MaxDate, exchange_rate : {0, 1500, 1600}]

\* faulty variant of the definition below: the date filter is missing
RateRows_AnyDate(currency, date) ==
    {r \in rates : r.from_currency = currency /\ r.to_currency = "NGN"}

\* the rows the filters of lines 532-536 keep
RateRows(currency, date) ==
    {r \in rates : r.from_currency = currency /\ r.to_currency = "NGN" /\ r.date <= date}

\* the rows that can come first under order_by="date desc"
FirstRows(currency, date) ==
    {r \in RateRows(currency, date) : \A s \in RateRows(currency, date) : s.date <= r.date}

MsgNoRate == "Exchange rate not found"

\* faulty variant of the definition below: no currency takes the early return
SameCurrency_Never(currency) == FALSE

\* the test of line 526: the asked currency is the target currency itself
SameCurrency(currency) == currency = "NGN"

\* lines 541-544 on the value get_value returned; 0 stands for every falsy value
RateOutcome(rate) ==
    IF rate = 0 THEN Error("ValidationError", MsgNoRate) ELSE Ok(rate)

get_exchange_rate ==
    /\ request.op = "get_exchange_rate"
    /\ calls < MaxCalls
    /\ IF SameCurrency(request.currency)
       THEN /\ result' = Ok(1)
            /\ UNCHANGED lookups
       ELSE /\ lookups' = lookups + 1
            /\ IF RateRows(request.currency, request.date) = {}
               THEN result' = RateOutcome(0)
               ELSE \E r \in FirstRows(request.currency, request.date) :
                        result' = RateOutcome(r.exchange_rate)
    /\ calls' = calls + 1
    /\ UNCHANGED <<request, css, invoices, customers, rates, ad_spends, journals,
                   role_profile, session_user, pc, current_user, start_user, pending>>

-----------------------------------------------------------------------------
(* create_journal_entry *)

AdSpends == [date : {"2025-02-16"}, digital_marketer : {"Bola", "Chidi"},
             amount_in_ngn : Amounts, source_of_funds : {"GTB - TK", "Cash - TK"}]

\* the Journal Entry of lines 554-571, as inserted and submitted under name
AdSpendEntry(ad_spend, name) ==
    [name         |-> name,
     posting_date |-> ad_spend.date,
     company      |-> "Timmie Kettle",
     remark       |-> "Advert spend by " \o ad_spend.digital_marketer,
     accounts     |-> << [account |-> "Advertisement - TK",
                          debit_in_account_currency  |-> ad_spend.amount_in_ngn,
                          credit_in_account_currency |-> 0],
                         [account |-> ad_spend.source_of_funds,
                          debit_in_account_currency  |-> 0,
                          credit_in_account_currency |-> ad_spend.amount_in_ngn] >>,
     docstatus    |-> 1]

create_journal_entry ==
    /\ request.op = "create_journal_entry"
    /\ calls < MaxCalls
    /\ LET name == DocName("ACC-JV-", Len(journals) + 1)
       IN  /\ journals' = Append(journals, AdSpendEntry(ad_spends[request.docname], name))
           /\ result' = Ok(name)
    /\ calls' = calls + 1
    /\ UNCHANGED <<request, css, invoices, customers, rates, ad_spends,
                   role_profile, session_user, pc, current_user, start_user,
                   pending, lookups>>

-----------------------------------------------------------------------------
(* create_journal_entry2 *)

\* a value of the parsed JSON payload: a key that is missing, null, the empty
\* string, or a number
Missing   == [kind |-> "missing", v |-> 0]
Null      == [kind |-> "null", v |-> 0]
EmptyStr  == [kind |-> "empty", v |-> 0]
Num(a)    == [kind |-> "num", v |-> a]

\* float(x or 0) for x = payload.get(key)
FloatOrZero(x) == IF x.kind = "num" THEN x.v ELSE 0

\* float(inv.get("outstanding_amount", 0)): the default covers a missing key only
OutstandingConverts(x) == x.kind \in {"missing", "num"}
OutstandingFloat(x)    == IF x.kind = "num" THEN x.v ELSE 0
OutstandingError(x) ==
    IF x.kind = "null"
    THEN Error("TypeError", "float() argument must be a string or a real number")
    ELSE Error("ValueError", "could not convert string to float")

DeductionValues   == {Missing, EmptyStr} \cup {Num(a) : a \in {0, 1}}
TotalValues       == {Missing, EmptyStr} \cup {Num(a) : a \in Amounts}
OutstandingValues == {Missing, Null} \cup {Num(a) : a \in Amounts}

AgentPayments == [name : {"AP-0001"}, bank : {"GTB - TK"}, date : {"2025-02-16"},
                  commissions_deducted : DeductionValues,
                  charges_deducted     : DeductionValues,
                  selected_total       : TotalValues]

SelectedInvoices ==
    {[i \in 1..Len(amts) |->
        [name |-> DocName("SINV-", i), customer |-> DocName("CUST-", i),
         outstanding_amount |-> amts[i]]] : amts \in SeqsUpTo(OutstandingValues, MaxSelected)}

\* sum([...]) of line 593 over the first n selected invoices
RECURSIVE OutstandingSum(_, _)
OutstandingSum(selected, n) ==
    IF n = 0 THEN 0
    ELSE fadd(OutstandingSum(selected, n - 1),
              OutstandingFloat(selected[n].outstanding_amount))

invoice_total(selected) == OutstandingSum(selected, Len(selected))

commission(agent_payment) == FloatOrZero(agent_payment.commissions_deducted)
charges(agent_payment)    == FloatOrZero(agent_payment.charges_deducted)

computed_total(agent_payment, selected) ==
    fsub(fsub(invoice_total(selected), commission(agent_payment)), charges(agent_payment))

selected_total_field(agent_payment) == FloatOrZero(agent_payment.selected_total)

\* faulty variant of the definition below: the comparison leaves the charges out
TotalsDiffer_IgnoresCharges(agent_payment, selected) ==
    fsub(invoice_total(selected), commission(agent_payment))
        # selected_total_field(agent_payment)

\* line 604: the comparison that guards the construction
TotalsDiffer(agent_payment, selected) ==
    computed_total(agent_payment, selected) # selected_total_field(agent_payment)

MsgTotals == "The computed net payment does not equal the Selected Total"

\* the error lines 593-606 raise, or NoResult when they pass
PaymentCheck(agent_payment, selected) ==
    IF \E i \in 1..Len(selected) : ~OutstandingConverts(selected[i].outstanding_amount)
    THEN LET i == CHOOSE j \in 1..Len(selected) :
                    /\ ~OutstandingConverts(selected[j].outstanding_amount)
                    /\ \A k \in 1..(j - 1) : OutstandingConverts(selected[k].outstanding_amount)
         IN  OutstandingError(selected[i].outstanding_amount)
    ELSE IF TotalsDiffer(agent_payment, selected)
    THEN Error("ValidationError", MsgTotals)
    ELSE NoResult

BankLine(agent_payment, selected) ==
    [account |-> agent_payment.bank,
     debit_in_account_currency  |-> computed_total(agent_payment, selected),
     credit_in_account_currency |-> 0,
     party_type |-> "", party |-> "",
     reference_type |-> None, reference_name |-> None]

ReceivableLine(inv) ==
    [account |-> "Debtors - TK",
     debit_in_account_currency  |-> 0,
     credit_in_account_currency |-> OutstandingFloat(inv.outstanding_amount),
     party_type |-> "Customer", party |-> inv.customer,
     reference_type |-> "Sales Invoice", reference_name |-> inv.name]

DeductionLine(account, amount) ==
    [account |-> account,
     debit_in_account_currency  |-> amount,
     credit_in_account_currency |-> 0,
     party_type |-> None, party |-> None,
     reference_type |-> None, reference_name |-> None]

\* the lines appended by lines 624-664, in order
PaymentLines(agent_payment, selected) ==
    <<BankLine(agent_payment, selected)>>
    \o [i \in 1..Len(selected) |-> ReceivableLine(selected[i])]
    \o (IF commission(agent_payment) # 0
        THEN <<DeductionLine("Commission on Sales - TK", commission(agent_payment))>>
        ELSE <<>>)
    \o (IF charges(agent_payment) # 0
        THEN <<DeductionLine("Delivery Charges - TK", charges(agent_payment))>>
        ELSE <<>>)

\* the Journal Entry of lines 609-664, as inserted and submitted under name
\* (the payload carries a date, so the nowdate() default is not taken; the bank
\* account belongs to the company Timmie Kettle, whose receivable account is
\* Debtors - TK)
PaymentEntry(agent_payment, selected, name) ==
    [name           |-> name,
     voucher_type   |-> "Journal Entry",
     posting_date   |-> agent_payment.date,
     reference_no   |-> agent_payment.name,
     reference_date |-> agent_payment.date,
     company        |-> "Timmie Kettle",
     accounts       |-> PaymentLines(agent_payment, selected),
     docstatus      |-> 1]

create_journal_entry2 ==
    /\ request.op = "create_journal_entry2"
    /\ calls < MaxCalls
    /\ LET check == PaymentCheck(request.agent_payment, request.selected_invoices)
           name  == DocName("ACC-JV-", Len(journals) + 1)
       IN  IF check.status = "error"
           THEN /\ result' = check
                /\ UNCHANGED journals
           ELSE /\ journals' = Append(journals,
                        PaymentEntry(request.agent_payment, request.selected_invoices, name))
                /\ result' = Ok(name)
    /\ calls' = calls + 1
    /\ UNCHANGED <<request, css, invoices, customers, rates, ad_spends,
                   role_profile, session_user, pc, current_user, start_user,
                   pending, lookups>>

-----------------------------------------------------------------------------
(* Properties of search_customer and create_customer *)

\* positions of the stored customers whose email, or mobile, is the one asked for
EmailMatches ==
    IF Truthy(request.email)
    THEN {i \in 1..Len(customers) : customers[i].email_id = request.email} ELSE {}

MobileMatches ==
    IF Truthy(request.mobile)
    THEN {i \in 1..Len(customers) : customers[i].mobile_no = request.mobile} ELSE {}

First(S) == CHOOSE i \in S : \A j \in S : i <= j

\* C9: search_customer returns the first email match whenever a given email
\* matches a customer, also when the mobile matches another customer; the first
\* mobile match only when the email is absent or matches nothing; and None when
\* neither matches.
C9_EmailBeforeMobile ==
    (request.op = "search_customer" /\ calls > 0)
    => /\ result.status = "ok"
       /\ result.value =
            IF EmailMatches # {} THEN customers[First(EmailMatches)].name
            ELSE IF MobileMatches # {} THEN customers[First(MobileMatches)].name
            ELSE None

C9_Witness ==
    /\ request.op = "search_customer"
    /\ calls > 0
    /\ EmailMatches = {2}
    /\ MobileMatches = {1}
    /\ result = Ok("CUST-2")

CustomerCallDone == request.op = "create_customer" /\ calls > 0

LastCustomer == customers[Len(customers)]

\* C7: create_customer with country Ghana and a default account inserts a
\* customer with territory Ghana, group Individual and exactly one accounts row
\* linking that account, and returns its name; for every other country, or
\* none, the inserted customer has territory Nigeria and no accounts row.
C7_GhanaCustomerGetsAccountRow ==
    /\ (CustomerCallDone /\ request.country = "Ghana" /\ Truthy(request.default_account))
       => /\ result.status = "ok"
          /\ result.value = LastCustomer.name
          /\ LastCustomer.customer_name = request.customer_name
          /\ LastCustomer.territory = "Ghana"
          /\ LastCustomer.customer_group = "Individual"
          /\ Len(LastCustomer.accounts) = 1
          /\ LastCustomer.accounts[1].account = request.default_account
    /\ (CustomerCallDone /\ request.country # "Ghana")
       => /\ result.status = "ok"
          /\ result.value = LastCustomer.name
          /\ LastCustomer.territory = "Nigeria"
          /\ LastCustomer.customer_group = "Individual"
          /\ LastCustomer.accounts = <<>>

-----------------------------------------------------------------------------
(* Properties of the role-administration handlers *)

RoleRequest == request.op \in {"get_customer_service_users", "update_user_role"}

Elevated == pc \in {"try", "finally"}

\* whenever a call has ended, by return or by an error of the store operation,
\* the session user is the user of the start of that call
IdentityRestored ==
    (RoleRequest /\ pc = "idle") => session_user = start_user

\* C6 as stated: the identity is restored when a call ends, and it is
\* Administrator only between the elevation and the cleanup.
C6_AdministratorOnlyWhileElevated ==
    /\ IdentityRestored
    /\ (RoleRequest /\ session_user = "Administrator") => Elevated

\* C6 amended: the identity is restored when a call ends; between the elevation
\* and the cleanup it is Administrator, and outside that window it is the
\* caller's own identity (Administrator only for a caller who is Administrator).
C6_IdentityRestoredOutsideWindow ==
    /\ IdentityRestored
    /\ (RoleRequest /\ Elevated) => session_user = "Administrator"
    /\ (RoleRequest /\ session_user # start_user) => Elevated
    /\ (RoleRequest /\ session_user = "Administrator" /\ start_user # "Administrator")
       => Elevated

\* a call by a plain agent ended with the store operation's error
C6_Witness ==
    /\ request.op = "update_user_role"
    /\ pc = "idle"
    /\ calls > 0
    /\ result.status = "error"
    /\ start_user = "agent@tk"
    /\ session_user = "agent@tk"

-----------------------------------------------------------------------------
(* Properties of get_exchange_rate *)

RateCallDone ==
    request.op = "get_exchange_rate" /\ calls > 0 /\ request.currency # "NGN"

\* the records from the asked currency to NGN dated on or before the asked date
OnOrBefore ==
    {r \in rates : /\ r.from_currency = request.currency
                   /\ r.to_currency = "NGN"
                   /\ r.date <= request.date}

\* those of them with the latest date
Latest == {r \in OnOrBefore : \A s \in OnOrBefore : s.date <= r.date}

\* C8 as stated: the call returns the rate of a record with the latest date on
\* or before the asked date, and fails if and only if there is no such record.
C8_FailsIffNoRecord ==
    RateCallDone
    => /\ result.status = "ok" => \E r \in Latest : result.value = r.exchange_rate
       /\ result.status = "error" <=> OnOrBefore = {}

\* C8 amended: the call returns the rate of a record with the latest date on or
\* before the asked date, and fails with the not-found error if and only if
\* there is no such record or the record it selected has a zero (empty) rate.
C8_FailsIffNoRecordOrZeroRate ==
    RateCallDone
    => /\ result.status \in {"ok", "error"}
       /\ result.status = "ok"
          => /\ result.value # 0
             /\ \E r \in Latest : result.value = r.exchange_rate
       /\ result.status = "error"
          => /\ result.message = MsgNoRate
             /\ OnOrBefore = {} \/ \E r \in Latest : r.exchange_rate = 0
       /\ OnOrBefore = {} => result.status = "error"
       /\ (\A r \in Latest : r.exchange_rate = 0) => result.status = "error"
       /\ (OnOrBefore # {} /\ \A r \in Latest : r.exchange_rate # 0)
          => result.status = "ok"

\* an earlier record is used although a later-dated one is in the store
C8_Witness ==
    /\ RateCallDone
    /\ result.status = "ok"
    /\ Cardinality(OnOrBefore) = 1
    /\ \E r \in rates : /\ r.from_currency = request.currency
                        /\ r.to_currency = "NGN"
                        /\ r.date > request.date
                        /\ r.exchange_rate # result.value
                        /\ r.exchange_rate # 0

\* C11: a call for "NGN" returns 1.0 whatever the date and the content of the
\* Currency Exchange table are, and issues no query on that table.
C11_NairaIsOneWithoutLookup ==
    (request.op = "get_exchange_rate" /\ request.currency = "NGN" /\ calls > 0)
    => /\ result = Ok(1)
       /\ lookups = 0

\* the store holds a record from NGN to NGN, dated on or before the asked date,
\* whose rate is not 1: a query would have found it
C11_Witness ==
    /\ request.op = "get_exchange_rate"
    /\ request.currency = "NGN"
    /\ calls = MaxCalls
    /\ result = Ok(1)
    /\ \E r \in rates : /\ r.from_currency = "NGN"
                        /\ r.to_currency = "NGN"
                        /\ r.date <= request.date
                        /\ r.exchange_rate = 1500

-----------------------------------------------------------------------------
(* Properties of the journal-entry builders *)

PaymentCallDone == request.op = "create_journal_entry2" /\ calls > 0

AmountOf(x) == IF x.kind = "num" THEN x.v ELSE 0

\* (sum of the outstanding amounts) - commission - charges, as Python's floats give it
RECURSIVE FloatTotal(_)
FloatTotal(amounts) ==
    IF amounts = <<>> THEN 0
    ELSE Float(FloatTotal(SubSeq(amounts, 1, Len(amounts) - 1)) + amounts[Len(amounts)])

RECURSIVE ExactTotal(_)
ExactTotal(amounts) ==
    IF amounts = <<>> THEN 0
    ELSE ExactTotal(SubSeq(amounts, 1, Len(amounts) - 1)) + amounts[Len(amounts)]

RequestedOutstanding ==
    [i \in 1..Len(request.selected_invoices) |->
        AmountOf(request.selected_invoices[i].outstanding_amount)]

RequestedNet ==
    Float(Float(FloatTotal(RequestedOutstanding)
                - AmountOf(request.agent_payment.commissions_deducted))
          - AmountOf(request.agent_payment.charges_deducted))

\* C4: create_journal_entry2 fails and persists no Journal Entry whenever the
\* outstanding amounts minus commission minus charges differ from
\* selected_total, missing and empty values counting as 0.
C4_TotalsMismatchNoEntry ==
    (PaymentCallDone /\ RequestedNet # AmountOf(request.agent_payment.selected_total))
    => /\ result.status = "error"
       /\ journals = <<>>

C4_Witness ==
    /\ PaymentCallDone
    /\ Len(request.selected_invoices) = 2
    /\ \A i \in 1..2 : request.selected_invoices[i].outstanding_amount.kind = "num"
    /\ request.agent_payment.commissions_deducted.kind = "empty"
    /\ AmountOf(request.agent_payment.charges_deducted) = 1
    /\ RequestedNet + 1 = AmountOf(request.agent_payment.selected_total)
    /\ result.status = "error"
    /\ result.message = MsgTotals

Debits(je)  == [i \in 1..Len(je.accounts) |-> je.accounts[i].debit_in_account_currency]
Credits(je) == [i \in 1..Len(je.accounts) |-> je.accounts[i].credit_in_account_currency]

\* total debits = total credits, the totals taken in exact arithmetic or added
\* up in floats in line order, whichever makes them equal
Balanced(je) ==
    \/ ExactTotal(Debits(je)) = ExactTotal(Credits(je))
    \/ FloatTotal(Debits(je)) = FloatTotal(Credits(je))

\* C5: every persisted Journal Entry is balanced.  An agent-payment entry debits
\* the bank with the computed net, the commission and the charges when they are
\* non-zero, and credits one receivable line per selected invoice with its
\* outstanding amount; an ad-spend entry has exactly two lines, one debit and
\* one credit, both of amount_in_ngn.
C5_EntriesBalanced ==
    /\ request.op = "create_journal_entry2"
       => \A k \in 1..Len(journals) :
            /\ Balanced(journals[k])
            /\ journals[k].accounts[1].debit_in_account_currency = RequestedNet
            /\ \A i \in 1..Len(request.selected_invoices) :
                 journals[k].accounts[1 + i].credit_in_account_currency
                    = RequestedOutstanding[i]
    /\ request.op = "create_journal_entry"
       => \A k \in 1..Len(journals) :
            /\ Balanced(journals[k])
            /\ Len(journals[k].accounts) = 2
            /\ journals[k].accounts[1].debit_in_account_currency
                  = ad_spends[request.docname].amount_in_ngn
            /\ journals[k].accounts[1].credit_in_account_currency = 0
            /\ journals[k].accounts[2].credit_in_account_currency
                  = ad_spends[request.docname].amount_in_ngn
            /\ journals[k].accounts[2].debit_in_account_currency = 0

-----------------------------------------------------------------------------
(* Initial states: one inbound request against one store content *)

Quiet ==
    /\ invoices = <<>>
    /\ journals = <<>>
    /\ pc = "idle"
    /\ current_user = None
    /\ pending = NoResult
    /\ calls = 0
    /\ lookups = 0
    /\ result = NoResult

NoSheets    == css = <<>>
NoCustomers == customers = <<>>
NoRates     == rates = {}
NoAdSpends  == ad_spends = <<>>
NoRoles     == role_profile = <<>>
AgentSession == session_user = "agent@tk" /\ start_user = "agent@tk"

InitInvoice ==
    /\ request = [op |-> "create_sales_invoice", customer_service_sheet |-> "CSS-1"]
    /\ css \in [{"CSS-1"} -> Sheets]
    /\ NoCustomers /\ NoRates /\ NoAdSpends /\ NoRoles /\ AgentSession /\ Quiet

InitSearch ==
    /\ request \in [op : {"search_customer"},
                    email : Emails \cup {None, ""}, mobile : Mobiles \cup {None, ""}]
    /\ customers \in {CustomerStore(d) : d \in SeqsUpTo(StoredCustomers, MaxCustomers)}
    /\ NoSheets /\ NoRates /\ NoAdSpends /\ NoRoles /\ AgentSession /\ Quiet

InitCreateCustomer ==
    /\ request \in [op : {"create_customer"}, customer_name : {"Ada Obi"},
                    country : {None, "Nigeria", "Ghana", "ghana"},
                    default_account : {None, "", "Debtors GHS - TK"},
                    billing_currency : {None, "GHS"},
                    email : {None, "ada@x.ng"}, mobile : {None, "0801"}]
    /\ customers \in {CustomerStore(d) : d \in SeqsUpTo({[email_id |-> "obi@x.ng", mobile_no |-> None]}, 1)}
    /\ NoSheets /\ NoRates /\ NoAdSpends /\ NoRoles /\ AgentSession /\ Quiet

InitRoles ==
    /\ request \in [op : {"get_customer_service_users"}]
                   \cup [op : {"update_user_role"},
                         user : {Users[i] : i \in 1..Len(Users)}, active : ActiveValues]
    /\ role_profile \in [{Users[i] : i \in 1..Len(Users)} -> RoleProfiles]
    /\ session_user \in {"agent@tk", "Administrator"}
    /\ start_user = session_user
    /\ NoSheets /\ NoCustomers /\ NoRates /\ NoAdSpends /\ Quiet

InitRates ==
    /\ request \in [op : {"get_exchange_rate"}, currency : Currencies, date : 1..MaxDate]
    /\ rates \in SubsetsUpTo(RateRecords, MaxRates)
    /\ NoSheets /\ NoCustomers /\ NoAdSpends /\ NoRoles /\ AgentSession /\ Quiet

InitAdSpend ==
    /\ request = [op |-> "create_journal_entry", docname |-> "ADS-1"]
    /\ ad_spends \in [{"ADS-1"} -> AdSpends]
    /\ NoSheets /\ NoCustomers /\ NoRates /\ NoRoles /\ AgentSession /\ Quiet

InitAgentPayment ==
    /\ request \in [op : {"create_journal_entry2"}, agent_payment : AgentPayments,
                    selected_invoices : SelectedInvoices]
    /\ NoSheets /\ NoCustomers /\ NoRates /\ NoAdSpends /\ NoRoles /\ AgentSession /\ Quiet

Init ==
    \/ InitInvoice
    \/ InitSearch
    \/ InitCreateCustomer
    \/ InitRoles
    \/ InitRates
    \/ InitAdSpend
    \/ InitAgentPayment

Next ==
    \/ create_sales_invoice
    \/ search_customer
    \/ create_customer
    \/ get_customer_service_users
    \/ update_user_role
    \/ get_exchange_rate
    \/ create_journal_entry
    \/ create_journal_entry2

Spec == Init /\ [][Next]_vars

\* the handlers of one table each, run on their own requests
SpecInvoice  == InitInvoice /\ [][create_sales_invoice]_vars
SpecCustomer == (InitSearch \/ InitCreateCustomer)
                    /\ [][search_customer \/ create_customer]_vars
SpecRoles    == InitRoles /\ [][get_customer_service_users \/ update_user_role]_vars
SpecRates    == InitRates /\ [][get_exchange_rate]_vars
SpecJournal  == (InitAdSpend \/ InitAgentPayment)
                    /\ [][create_journal_entry \/ create_journal_entry2]_vars

=============================================================================
